---- MODULE Spec2Model ----
(***************************************************************************)
(* DatabaseAPI (src/api.py): a facade over one database engine.  Every     *)
(* method asks the inspector for the live table names, then either reports *)
(* and returns, or hands one statement to pandas / SQLAlchemy.             *)
(*                                                                         *)
(* The database is a function from the names of the existing tables to     *)
(* their contents.  A table and a DataFrame have the same shape: a         *)
(* sequence of column names and a sequence of rows, a row being a function *)
(* from column names to values.  Table and column names are plain          *)
(* lower-case identifiers, as in src/api_example_demo.py, so that their    *)
(* interpolation into SQL text names the same table and column.            *)
(***************************************************************************)
EXTENDS Integers, Sequences, FiniteSets, TLC

\* db      the database: existing table name -> [columns, rows]
\* call    the method called last, with its arguments
\* prior   what the called table held when the call was made
\* issued  the statement that call handed to pandas or the engine
\* raised  whether that call raised
\* result  what that call returned
VARIABLES db, call, prior, issued, raised, result

vars == <<db, call, prior, issued, raised, result>>

(***************************************************************************)
(* Bounds and input domains                                                *)
(***************************************************************************)
\* most rows in one DataFrame handed to the facade
MaxRows == 2

\* most rows stored in the whole database
MaxDbRows == 2

TableNames == {"sample_table", "other_table"}

Columns == {"column1", "column2"}

Values == {"value1", "value2"}

\* the SQL null a column holds when an INSERT names no value for it
NULL == "NULL"

RangeOf(s) == {s[i] : i \in DOMAIN s}

SeqsUpTo(S, n) == UNION {[1..k -> S] : k \in 0..n}

\* the column layouts of the DataFrames handed to the facade
FrameColumns == {<<"column1", "column2">>, <<"column1", "column3">>}

\* rows shaped like the demo's: a row holds one value in each of its columns
FrameRows(cols) == {[c \in RangeOf(cols) |-> v] : v \in Values}

DataFrames ==
    UNION {{[columns |-> cols, rows |-> rs] : rs \in SeqsUpTo(FrameRows(cols), MaxRows)}
           : cols \in FrameColumns}

Modes == {"append", "replace", "upsert"}

\* *columns of delete_from_table
ColumnLists == {<<>>, <<"column1">>, <<"column1", "column2">>}

\* **conditions of delete_from_table: keyword arguments, column -> value
ConditionSets == UNION {[S -> Values] : S \in {{}, {"column1"}, Columns}}

(***************************************************************************)
(* Python values                                                           *)
(***************************************************************************)
None == [type |-> "NoneType"]

\* no statement has been handed to pandas or to the engine
NoStatement == [fn |-> "none"]

(***************************************************************************)
(* The engine and pandas                                                   *)
(***************************************************************************)
get_table_names(database) == DOMAIN database

RECURSIVE RowCount(_, _)
RowCount(database, names) ==
    IF names = {} THEN 0
    ELSE LET n == CHOOSE x \in names : TRUE
         IN  Len(database[n].rows) + RowCount(database, names \ {n})

TotalRows(database) == RowCount(database, DOMAIN database)

PutTable(database, name, table) ==
    [n \in DOMAIN database \cup {name} |-> IF n = name THEN table ELSE database[n]]

\* DataFrame.to_sql's index column, written when index is not False
WithIndex(dataframe) ==
    [columns |-> <<"index">> \o dataframe.columns,
     rows    |-> [i \in DOMAIN dataframe.rows |->
                    [c \in RangeOf(dataframe.columns) \cup {"index"} |->
                        IF c = "index" THEN i - 1 ELSE dataframe.rows[i][c]]]]

\* the row an INSERT that names the frame's columns stores in a table
StoredRow(table, row) ==
    [c \in RangeOf(table.columns) |-> IF c \in DOMAIN row THEN row[c] ELSE NULL]

\* dataframe.to_sql(name, engine, if_exists=..., index=...): an unknown
\* if_exists is refused; an absent table is created from the frame; "replace"
\* drops and recreates it; "append" inserts the frame's rows under the frame's
\* column names, which the engine refuses when the table lacks one of them
\* (a frame without rows inserts nothing)
to_sql(database, dataframe, name, if_exists, index) ==
    LET frame == IF index THEN WithIndex(dataframe) ELSE dataframe
    IN  IF if_exists \notin {"fail", "replace", "append"}
        THEN [db |-> database, raised |-> TRUE]
        ELSE IF name \notin DOMAIN database
        THEN [db |-> PutTable(database, name, frame), raised |-> FALSE]
        ELSE CASE if_exists = "replace" ->
                    [db |-> PutTable(database, name, frame), raised |-> FALSE]
               [] if_exists = "append" ->
                    IF \/ frame.rows = <<>>
                       \/ RangeOf(frame.columns) \subseteq RangeOf(database[name].columns)
                    THEN [db |-> [database EXCEPT ![name].rows =
                                    @ \o [i \in DOMAIN frame.rows |->
                                            StoredRow(database[name], frame.rows[i])]],
                          raised |-> FALSE]
                    ELSE [db |-> database, raised |-> TRUE]
               [] OTHER -> [db |-> database, raised |-> TRUE]

\* text(f"TRUNCATE TABLE {table_name}")
truncate_query(table_name) == [stmt |-> "TRUNCATE", table |-> table_name]

\* f"SELECT * FROM {table_name}"
select_query(table_name) == [stmt |-> "SELECT", table |-> table_name]

\* text(f"DELETE FROM {table_name} WHERE " + " AND ".join(f"{column} = :{column}" ...))
delete_query(table_name, columns) ==
    [stmt  |-> "DELETE", table |-> table_name,
     where |-> [i \in DOMAIN columns |-> [column |-> columns[i], bind |-> columns[i]]]]

\* " OR ".join in place of " AND ".join
Matches_any(row, where, params) ==
    \E i \in DOMAIN where : row[where[i].column] = params[where[i].bind]

\* a row satisfies the WHERE clause: every conjunct column = :bind is true
\* (a NULL column equals nothing)
Matches(row, where, params) ==
    \A i \in DOMAIN where : row[where[i].column] = params[where[i].bind]

\* conn.execute(query, params); conn.commit()
execute_statement(database, query, params) ==
    IF query.table \notin DOMAIN database
    THEN [db |-> database, raised |-> TRUE]
    ELSE CASE query.stmt = "TRUNCATE" ->
                [db |-> [database EXCEPT ![query.table].rows = <<>>], raised |-> FALSE]
           [] query.stmt = "DELETE" ->
                IF \/ \E i \in DOMAIN query.where : query.where[i].bind \notin DOMAIN params
                   \/ \E i \in DOMAIN query.where :
                         query.where[i].column \notin RangeOf(database[query.table].columns)
                THEN [db |-> database, raised |-> TRUE]
                ELSE [db |-> [database EXCEPT ![query.table].rows =
                                SelectSeq(@, LAMBDA r : ~Matches(r, query.where, params))],
                      raised |-> FALSE]
           [] OTHER -> [db |-> database, raised |-> FALSE]

\* pd.read_sql_query(query, engine)
read_sql_query(database, query) ==
    [columns |-> database[query.table].columns, rows |-> database[query.table].rows]

(***************************************************************************)
(* The facade's methods, as functions of the database and the arguments    *)
(***************************************************************************)
Outcome(database, statement, error, value) ==
    [db |-> database, issued |-> statement, raised |-> error, result |-> value]

ToSql(table_name, dataframe, if_exists) ==
    [fn |-> "to_sql", name |-> table_name, dataframe |-> dataframe,
     if_exists |-> if_exists]

Execute(query, params) == [fn |-> "execute", query |-> query, params |-> params]

\* the existence check dropped, the write made with if_exists="replace"
create_table_unguarded(database, table_name, dataframe) ==
    LET w == to_sql(database, dataframe, table_name, "replace", FALSE)
    IN  Outcome(w.db, ToSql(table_name, dataframe, "replace"), w.raised, None)

\* index=False left out: to_sql writes the frame's index as a column
create_table_with_index(database, table_name, dataframe) ==
    IF table_name \in get_table_names(database)
    THEN Outcome(database, NoStatement, FALSE, None)
    ELSE LET w == to_sql(database, dataframe, table_name, "fail", TRUE)
         IN  Outcome(w.db, ToSql(table_name, dataframe, "fail"), w.raised, None)

create_table_do(database, table_name, dataframe) ==
    IF table_name \in get_table_names(database)
    THEN Outcome(database, NoStatement, FALSE, None)
    ELSE LET w == to_sql(database, dataframe, table_name, "fail", FALSE)
         IN  Outcome(w.db, ToSql(table_name, dataframe, "fail"), w.raised, None)

\* the existence check dropped
insert_sql_unguarded(database, table_name, dataframe, mode) ==
    IF mode \in {"append", "replace"}
    THEN LET w == to_sql(database, dataframe, table_name, mode, FALSE)
         IN  Outcome(w.db, ToSql(table_name, dataframe, mode), w.raised, None)
    ELSE Outcome(database, NoStatement, FALSE, None)

\* the mode handed to to_sql as it comes
insert_sql_any_mode(database, table_name, dataframe, mode) ==
    IF table_name \notin get_table_names(database)
    THEN Outcome(database, NoStatement, FALSE, None)
    ELSE LET w == to_sql(database, dataframe, table_name, mode, FALSE)
         IN  Outcome(w.db, ToSql(table_name, dataframe, mode), w.raised, None)

\* the two branches' if_exists exchanged
insert_sql_swapped(database, table_name, dataframe, mode) ==
    IF table_name \notin get_table_names(database)
    THEN Outcome(database, NoStatement, FALSE, None)
    ELSE IF mode = "append"
         THEN LET w == to_sql(database, dataframe, table_name, "replace", FALSE)
              IN  Outcome(w.db, ToSql(table_name, dataframe, "replace"), w.raised, None)
         ELSE IF mode = "replace"
              THEN LET w == to_sql(database, dataframe, table_name, "append", FALSE)
                   IN  Outcome(w.db, ToSql(table_name, dataframe, "append"), w.raised,
                               None)
              ELSE Outcome(database, NoStatement, FALSE, None)

insert_sql_do(database, table_name, dataframe, mode) ==
    IF table_name \notin get_table_names(database)
    THEN Outcome(database, NoStatement, FALSE, None)
    ELSE IF mode = "append"
         THEN LET w == to_sql(database, dataframe, table_name, "append", FALSE)
              IN  Outcome(w.db, ToSql(table_name, dataframe, "append"), w.raised, None)
         ELSE IF mode = "replace"
              THEN LET w == to_sql(database, dataframe, table_name, "replace", FALSE)
                   IN  Outcome(w.db, ToSql(table_name, dataframe, "replace"), w.raised,
                               None)
              ELSE Outcome(database, NoStatement, FALSE, None)

\* conn.commit() left out: the connection closes and the TRUNCATE is rolled back
truncate_table_uncommitted(database, table_name) ==
    IF table_name \notin get_table_names(database)
    THEN Outcome(database, NoStatement, FALSE, None)
    ELSE LET q == truncate_query(table_name)
             w == execute_statement(database, q, <<>>)
         IN  Outcome(database, Execute(q, <<>>), w.raised, None)

truncate_table_do(database, table_name) ==
    IF table_name \notin get_table_names(database)
    THEN Outcome(database, NoStatement, FALSE, None)
    ELSE LET q == truncate_query(table_name)
             w == execute_statement(database, q, <<>>)
         IN  Outcome(w.db, Execute(q, <<>>), w.raised, None)

read_sql_do(database, table_name) ==
    IF table_name \notin get_table_names(database)
    THEN Outcome(database, NoStatement, FALSE, None)
    ELSE LET q == select_query(table_name)
         IN  Outcome(database, [fn |-> "read_sql_query", query |-> q], FALSE,
                     read_sql_query(database, q))

\* "and" in place of "or" in the check of the arguments
delete_from_table_and(database, table_name, columns, conditions) ==
    IF table_name \notin get_table_names(database)
    THEN Outcome(database, NoStatement, FALSE, None)
    ELSE IF columns = <<>> /\ DOMAIN conditions = {}
         THEN Outcome(database, NoStatement, FALSE, None)
         ELSE LET q == delete_query(table_name, columns)
                  w == execute_statement(database, q, conditions)
              IN  Outcome(w.db, Execute(q, conditions), w.raised, None)

\* the WHERE clause built over the columns that have a condition
delete_from_table_bound_only(database, table_name, columns, conditions) ==
    IF table_name \notin get_table_names(database)
    THEN Outcome(database, NoStatement, FALSE, None)
    ELSE IF columns = <<>> \/ DOMAIN conditions = {}
         THEN Outcome(database, NoStatement, FALSE, None)
         ELSE LET q == delete_query(table_name,
                                    SelectSeq(columns, LAMBDA c : c \in DOMAIN conditions))
                  w == execute_statement(database, q, conditions)
              IN  Outcome(w.db, Execute(q, conditions), w.raised, None)

delete_from_table_do(database, table_name, columns, conditions) ==
    IF table_name \notin get_table_names(database)
    THEN Outcome(database, NoStatement, FALSE, None)
    ELSE IF columns = <<>> \/ DOMAIN conditions = {}
         THEN Outcome(database, NoStatement, FALSE, None)
         ELSE LET q == delete_query(table_name, columns)
                  w == execute_statement(database, q, conditions)
              IN  Outcome(w.db, Execute(q, conditions), w.raised, None)

(***************************************************************************)
(* Actions: one call of one method                                         *)
(***************************************************************************)
\* what the inspector and a SELECT would have shown of the table at the call
Prior(database, table_name) ==
    IF table_name \in DOMAIN database
    THEN [exists |-> TRUE, nrows |-> Len(database[table_name].rows)]
    ELSE [exists |-> FALSE, nrows |-> 0]

Return(o) ==
    /\ TotalRows(o.db) <= MaxDbRows
    /\ db' = o.db
    /\ issued' = o.issued
    /\ raised' = o.raised
    /\ result' = o.result

create_table(table_name, dataframe) ==
    /\ call' = [op |-> "create_table", table_name |-> table_name, dataframe |-> dataframe]
    /\ prior' = Prior(db, table_name)
    /\ Return(create_table_do(db, table_name, dataframe))

insert_sql(table_name, dataframe, mode) ==
    /\ call' = [op |-> "insert_sql", table_name |-> table_name, dataframe |-> dataframe,
                mode |-> mode]
    /\ prior' = Prior(db, table_name)
    /\ Return(insert_sql_do(db, table_name, dataframe, mode))

truncate_table(table_name) ==
    /\ call' = [op |-> "truncate_table", table_name |-> table_name]
    /\ prior' = Prior(db, table_name)
    /\ Return(truncate_table_do(db, table_name))

read_sql(table_name) ==
    /\ call' = [op |-> "read_sql", table_name |-> table_name]
    /\ prior' = Prior(db, table_name)
    /\ Return(read_sql_do(db, table_name))

delete_from_table(table_name, columns, conditions) ==
    /\ call' = [op |-> "delete_from_table", table_name |-> table_name,
                columns |-> columns, conditions |-> conditions]
    /\ prior' = Prior(db, table_name)
    /\ Return(delete_from_table_do(db, table_name, columns, conditions))

Init ==
    /\ db = <<>>
    /\ call = [op |-> "__init__"]
    /\ prior = [exists |-> FALSE, nrows |-> 0]
    /\ issued = NoStatement
    /\ raised = FALSE
    /\ result = None

Next ==
    \/ \E n \in TableNames, d \in DataFrames : create_table(n, d)
    \/ \E n \in TableNames, d \in DataFrames, m \in Modes : insert_sql(n, d, m)
    \/ \E n \in TableNames : truncate_table(n)
    \/ \E n \in TableNames : read_sql(n)
    \/ \E n \in TableNames, cs \in ColumnLists, cd \in ConditionSets :
          delete_from_table(n, cs, cd)

Spec == Init /\ [][Next]_vars

(***************************************************************************)
(* Properties.  A step's unprimed db is the database the call found, the   *)
(* primed variables are what the call left.  "followed by read_sql" is     *)
(* read_sql evaluated in the state the call left.                          *)
(***************************************************************************)
\* what read_sql(table_name) returns when called in this database state
ReadBack(database, table_name) == read_sql_do(database, table_name).result

OtherTablesKept(table_name) ==
    /\ DOMAIN db' \ {table_name} = DOMAIN db \ {table_name}
    /\ \A n \in DOMAIN db \ {table_name} : db'[n] = db[n]

\* C1: insert_sql, truncate_table, read_sql and delete_from_table called with a
\* table name that is not in the schema leave the database unchanged, raise
\* nothing, hand no statement to pandas or the engine, and read_sql returns None.
C1_AbsentTableIsNoOp ==
    [][(/\ call'.op \in {"insert_sql", "truncate_table", "read_sql",
                         "delete_from_table"}
        /\ call'.table_name \notin DOMAIN db)
       => /\ db' = db
          /\ ~raised'
          /\ issued' = NoStatement
          /\ result' = None]_vars

C1_Witness ==
    /\ call.op = "insert_sql"
    /\ call.mode = "append"
    /\ Len(call.dataframe.rows) > 0
    /\ ~prior.exists
    /\ call.table_name \notin DOMAIN db
    /\ \E n \in DOMAIN db : Len(db[n].rows) > 0
    /\ issued = NoStatement

\* C2: create_table on a name that already exists changes nothing, writes
\* nothing from the dataset and raises nothing.
C2_CreateExistingIsNoOp ==
    [][(/\ call'.op = "create_table"
        /\ call'.table_name \in DOMAIN db)
       => /\ db' = db
          /\ issued' = NoStatement
          /\ ~raised']_vars

C2_Witness ==
    /\ call.op = "create_table"
    /\ prior.exists
    /\ prior.nrows > 0
    /\ Len(call.dataframe.rows) > 0
    /\ call.dataframe # ReadBack(db, call.table_name)
    /\ issued = NoStatement

\* C3: create_table on an absent name followed by read_sql of that name returns
\* exactly the dataset: its columns, and its rows in their order, nothing added.
C3_CreateThenRead ==
    [][(/\ call'.op = "create_table"
        /\ call'.table_name \notin DOMAIN db)
       => /\ ~raised'
          /\ ReadBack(db', call'.table_name) = call'.dataframe]_vars

C3_Witness ==
    /\ call.op = "create_table"
    /\ ~prior.exists
    /\ Len(call.dataframe.rows) = 2
    /\ call.dataframe.rows[1] # call.dataframe.rows[2]
    /\ ReadBack(db, call.table_name) = call.dataframe

\* C4: insert_sql with mode "replace" on an existing table followed by read_sql
\* returns exactly the new dataset, whatever the table held; the table exists.
C4_ReplaceThenRead ==
    [][(/\ call'.op = "insert_sql"
        /\ call'.mode = "replace"
        /\ call'.table_name \in DOMAIN db)
       => /\ call'.table_name \in DOMAIN db'
          /\ ReadBack(db', call'.table_name) = call'.dataframe]_vars

C4_Witness ==
    /\ call.op = "insert_sql"
    /\ call.mode = "replace"
    /\ prior.exists
    /\ prior.nrows = 2
    /\ Len(call.dataframe.rows) = 1
    /\ ReadBack(db, call.table_name) = call.dataframe

\* the table's rows before the call, then the dataset's rows as the table stores them
AppendedRows(table, dataframe) == table.rows \o dataframe.rows

\* C5 as claimed: for every existing table and every dataset, insert_sql with
\* mode "append" followed by read_sql returns the prior rows followed by the
\* dataset's rows.
C5_AppendThenRead_AnyDataset ==
    [][(/\ call'.op = "insert_sql"
        /\ call'.mode = "append"
        /\ call'.table_name \in DOMAIN db)
       => ReadBack(db', call'.table_name).rows
            = AppendedRows(db[call'.table_name], call'.dataframe)]_vars

\* C5 amended: for every existing table and every dataset whose columns are the
\* table's columns, insert_sql with mode "append" followed by read_sql returns
\* the table's columns and the prior rows followed by the dataset's rows.
C5_AppendThenRead ==
    [][(/\ call'.op = "insert_sql"
        /\ call'.mode = "append"
        /\ call'.table_name \in DOMAIN db
        /\ RangeOf(call'.dataframe.columns) = RangeOf(db[call'.table_name].columns))
       => /\ ~raised'
          /\ ReadBack(db', call'.table_name)
               = [columns |-> db[call'.table_name].columns,
                  rows    |-> AppendedRows(db[call'.table_name], call'.dataframe)]]_vars

C5_Witness ==
    /\ call.op = "insert_sql"
    /\ call.mode = "append"
    /\ prior.exists
    /\ prior.nrows = 1
    /\ Len(call.dataframe.rows) = 1
    /\ ~raised
    /\ LET r == ReadBack(db, call.table_name)
       IN  /\ Len(r.rows) = 2
           /\ r.rows[2] = call.dataframe.rows[1]
           /\ r.rows[1] # r.rows[2]

RowEquals(row, columns, conditions) ==
    \A i \in DOMAIN columns :
        /\ columns[i] \in DOMAIN row
        /\ row[columns[i]] = conditions[columns[i]]

UnboundColumnCase ==
    /\ call'.op = "delete_from_table"
    /\ call'.table_name \in DOMAIN db
    /\ call'.columns # <<>>
    /\ DOMAIN call'.conditions # {}
    /\ RangeOf(call'.columns) \subseteq RangeOf(db[call'.table_name].columns)
    /\ \E i \in DOMAIN call'.columns : call'.columns[i] \notin DOMAIN call'.conditions

C9_DeleteWithoutArgumentsIsNoOp ==
    [][(/\ call'.op = "delete_from_table"
        /\ call'.table_name \in DOMAIN db
        /\ (call'.columns = <<>> \/ DOMAIN call'.conditions = {}))
       => /\ db' = db
          /\ issued' = NoStatement
          /\ ~raised']_vars

C9_Witness ==
    /\ call.op = "delete_from_table"
    /\ call.columns # <<>>
    /\ DOMAIN call.conditions = {}
    /\ prior.exists
    /\ prior.nrows = 2
    /\ Len(db[call.table_name].rows) = 2
    /\ issued = NoStatement

\* C10: insert_sql on an existing table with a mode other than "append" and
\* "replace" changes nothing, writes nothing and raises nothing.
C10_UnknownModeIsNoOp ==
    [][(/\ call'.op = "insert_sql"
        /\ call'.table_name \in DOMAIN db
        /\ call'.mode \notin {"append", "replace"})
       => /\ db' = db
          /\ issued' = NoStatement
          /\ ~raised']_vars

C10_Witness ==
    /\ call.op = "insert_sql"
    /\ call.mode = "upsert"
    /\ prior.exists
    /\ prior.nrows > 0
    /\ Len(call.dataframe.rows) > 0
    /\ call.dataframe # ReadBack(db, call.table_name)
    /\ issued = NoStatement

====
